---- MODULE Spec2Model ----
(***************************************************************************)
(* toyplot.data.Table and toyplot.data.read_csv (src/toyplot/data.py).     *)
(*                                                                         *)
(* A column name is a Python string, modelled as a sequence of             *)
(* one-character strings: "a-1" is <<"a", "-", "1">>.  A numpy array is a  *)
(* view [buf, ix] onto a data buffer of the heap: two arrays that name the *)
(* same buffer share memory, as numpy views do.  Positions are 1-based in  *)
(* the model and 0-based in Python; the index operators convert.           *)
(***************************************************************************)
EXTENDS Integers, Sequences, FiniteSets, TLC

VARIABLES
    heap,   \* the numpy data buffers: a sequence of sequences of values
    t,      \* the Table under test: [cols, meta], or NoTable before construction
    d,      \* a Table derived from t by an indexing read or Table(t), or NoTable
    csv,    \* the outcome of read_csv: [rows, convert, plain, result], or NoCsv
    last    \* the last operation: its name, its arguments and its outcome

vars == <<heap, t, d, csv, last>>

\* ------------------------------------------------------------------ bounds

MaxRows == 2     \* longest column / longest value list offered
MaxNames == 4    \* longest source name list in SpecNames
MaxBufs == 6     \* data buffers allocated before the model stops allocating
MaxCsvRows == 2  \* data rows of a delimited-text input

Val == {0, 1}
NoTable == [none |-> "table"]
NoCsv == [none |-> "csv"]
\* slice bounds: None is <<>>, the integer i is <<i>>
None == <<>>
Bound(i) == <<i>>

\* ------------------------------------------------------------ sequences

Range(s) == {s[i] : i \in DOMAIN s}

SeqsUpTo(S, n) == UNION {[1..k -> S] : k \in 0..n}

Distinct(s) == \A i, j \in DOMAIN s : i # j => s[i] # s[j]

Min(a, b) == IF a < b THEN a ELSE b
Max(a, b) == IF a > b THEN a ELSE b

\* ----------------------------------------------------------------- names

\* The code point of a character: Python compares strings by code point.
Ord(c) ==
    CASE c = "-" -> 45
      [] c = "0" -> 48 [] c = "1" -> 49 [] c = "2" -> 50 [] c = "3" -> 51
      [] c = "4" -> 52 [] c = "5" -> 53 [] c = "6" -> 54 [] c = "7" -> 55
      [] c = "8" -> 56 [] c = "9" -> 57
      [] c = "a" -> 97 [] c = "b" -> 98 [] c = "x" -> 120

\* s < t for Python strings (lexicographic, a proper prefix sorts first).
RECURSIVE StrLess(_, _)
StrLess(s, u) ==
    IF u = <<>> THEN FALSE
    ELSE IF s = <<>> THEN TRUE
    ELSE IF Head(s) # Head(u) THEN Ord(Head(s)) < Ord(Head(u))
    ELSE StrLess(Tail(s), Tail(u))

Digit(n) ==
    CASE n = 0 -> "0" [] n = 1 -> "1" [] n = 2 -> "2" [] n = 3 -> "3"
      [] n = 4 -> "4" [] n = 5 -> "5" [] n = 6 -> "6" [] n = 7 -> "7"
      [] n = 8 -> "8" [] n = 9 -> "9"

\* "%s" of a non-negative integer: its decimal digits.
RECURSIVE Str(_)
Str(n) == IF n < 10 THEN <<Digit(n)>> ELSE Str(n \div 10) \o <<Digit(n % 10)>>

\* "%s-%s" % (key, suffix)
Format(key, suffix) == key \o <<"-">> \o Str(suffix)

\* --------------------------------------------- duplicate-name resolution

\* numpy.unique(keys): the distinct keys in ascending order.
RECURSIVE SortSet(_)
SortSet(S) ==
    IF S = {} THEN <<>>
    ELSE LET m == CHOOSE x \in S : \A y \in S \ {x} : StrLess(x, y)
         IN <<m>> \o SortSet(S \ {m})

key_dictionary(keys) == SortSet(Range(keys))

\* key_counts, per key.
key_count(keys, key) == Cardinality({i \in DOMAIN keys : keys[i] = key})

\* numpy.flatnonzero(keys == key): the positions holding key, ascending.
RECURSIVE flatnonzero(_, _, _)
flatnonzero(keys, key, from) ==
    IF from > Len(keys) THEN <<>>
    ELSE (IF keys[from] = key THEN <<from>> ELSE <<>>)
         \o flatnonzero(keys, key, from + 1)

\* Faulty variant of NextSuffix: the suffix is taken without looking at the reserved keys.
NextSuffixUnchecked(key, suffix, reserved) == suffix

\* while "%s-%s" % (key, suffix) in reserved_keys: suffix += 1
RECURSIVE NextSuffix(_, _, _)
NextSuffix(key, suffix, reserved) ==
    IF Format(key, suffix) \in reserved
    THEN NextSuffix(key, suffix + 1, reserved)
    ELSE suffix

\* The loop over the occurrences of one duplicated key.  `log` records, for
\* every renaming, the position renamed and reserved_keys as the while loop
\* found it.
RECURSIVE RenameOccurrences(_, _, _, _, _, _)
RenameOccurrences(key, idxs, keys, reserved, suffix, log) ==
    IF idxs = <<>> THEN [keys |-> keys, reserved |-> reserved, log |-> log]
    ELSE IF key \notin reserved
    THEN RenameOccurrences(key, Tail(idxs), keys, reserved \cup {key}, suffix, log)
    ELSE LET s == NextSuffix(key, suffix, reserved)
             new == Format(key, s)
         IN RenameOccurrences(key, Tail(idxs), [keys EXCEPT ![Head(idxs)] = new],
                              reserved \cup {new}, s,
                              log \cup {[pos |-> Head(idxs), reserved |-> reserved]})

\* The loop over key_dictionary; counts are those of the source keys.
RECURSIVE RenameKeys(_, _, _, _, _)
RenameKeys(dict, source, keys, reserved, log) ==
    IF dict = <<>> THEN [keys |-> keys, reserved |-> reserved, log |-> log]
    ELSE LET key == Head(dict) IN
         IF key_count(source, key) = 1
         THEN RenameKeys(Tail(dict), source, keys, reserved, log)
         ELSE LET r == RenameOccurrences(key, flatnonzero(keys, key, 1),
                                         keys, reserved, 1, log)
              IN RenameKeys(Tail(dict), source, r.keys, r.reserved, r.log)

\* The keys reserved at the start: those that are not duplicated.
reserved_keys(source) == {k \in Range(source) : key_count(source, k) = 1}

\* The names Table.__init__ stores for the source names `source`.
Dedup(source) ==
    RenameKeys(key_dictionary(source), source, source, reserved_keys(source), {}).keys

\* The renamings Table.__init__ performs for `source`: each with the position
\* renamed and the keys reserved when its suffix was chosen.
Renamings(source) ==
    RenameKeys(key_dictionary(source), source, source, reserved_keys(source), {}).log

\* ------------------------------------------------------- arrays and heap

\* A heap cell: a released one, or a buffer holding data.
Free == [live |-> FALSE, data |-> <<>>]
Cell(vals) == [live |-> TRUE, data |-> vals]

\* A numpy array: a view onto buffer buf, whose j-th element is buf[ix[j]].
Array(buf, ix) == [buf |-> buf, ix |-> ix]

\* column.shape[0]
Length(a) == Len(a.ix)

\* The values of an array, read through the heap.
Values(h, a) == [j \in 1..Length(a) |-> h[a.buf].data[a.ix[j]]]

FreeIds(h) == {i \in DOMAIN h : h[i] = Free}

\* A new buffer holding vals, at the lowest free id.
Alloc(h, vals) ==
    LET id == CHOOSE i \in FreeIds(h) : \A j \in FreeIds(h) : i <= j
    IN [heap |-> [h EXCEPT ![id] = Cell(vals)],
        arr  |-> Array(id, [j \in 1..Len(vals) |-> j])]

\* The buffers the columns of a Table refer to, in column order.
Refs(tab) == IF tab = NoTable THEN <<>> ELSE [i \in DOMAIN tab.cols |-> tab.cols[i].arr.buf]

\* refs without its repetitions, in the order of first occurrence.
RECURSIVE FirstOccurrences(_, _, _)
FirstOccurrences(refs, i, acc) ==
    IF i > Len(refs) THEN acc
    ELSE FirstOccurrences(refs, i + 1,
                          IF refs[i] \in Range(acc) THEN acc ELSE Append(acc, refs[i]))

Renumber(tab, live) ==
    IF tab = NoTable THEN NoTable
    ELSE [tab EXCEPT !.cols =
            [i \in DOMAIN @ |->
                [@[i] EXCEPT !.arr.buf = CHOOSE k \in DOMAIN live : live[k] = @]]]

\* Reference counting: a buffer no array refers to is released.  Buffer 1 is the
\* caller's own numpy array and stays alive.  Where a buffer lies in memory is
\* nothing the program can observe, so the live buffers are numbered in the
\* order in which the caller's array, tab1 and tab2 refer to them.
Collect(h, tab1, tab2) ==
    LET live == FirstOccurrences(<<1>> \o Refs(tab1) \o Refs(tab2), 1, <<>>)
    IN [heap |-> [i \in DOMAIN h |-> IF i <= Len(live) THEN h[live[i]] ELSE Free],
        tab1 |-> Renumber(tab1, live),
        tab2 |-> Renumber(tab2, live)]

\* slice(start, stop).indices(n) for step None: the clamped bounds, 0-based.
SliceBound(x, n, default) ==
    IF x = None THEN default
    ELSE IF x[1] < 0 THEN Max(x[1] + n, 0)
    ELSE Min(x[1], n)

\* The 1-based positions start+1 .. stop selected by slice(start, stop) on length n.
SlicePositions(start, stop, n) ==
    LET b == SliceBound(start, n, 0)
        e == SliceBound(stop, n, n)
    IN [j \in 1..Max(e - b, 0) |-> b + j]

Slice(start, stop) == [k |-> "slice", start |-> start, stop |-> stop]
IntSel(i) == [k |-> "int", i |-> i]
ListSel(pos) == [k |-> "list", pos |-> pos]

\* ------------------------------------------------------------- read_csv

\* A field of a delimited-text file, and a float64 number, as array elements.
TextVal(text) == [str |-> text]
FloatVal(x) == [float |-> x]

IsDigit(c) == c \in {"0", "1", "2", "3", "4", "5", "6", "7", "8", "9"}
DigitValue(c) == Ord(c) - Ord("0")

\* The number a string of digits denotes.
RECURSIVE Decimal(_, _)
Decimal(text, acc) ==
    IF text = <<>> THEN acc ELSE Decimal(Tail(text), 10 * acc + DigitValue(Head(text)))

\* float(text), over the characters of the model: an optional sign and at
\* least one digit; anything else does not parse.
Parses(text) ==
    LET digits == IF text # <<>> /\ Head(text) = "-" THEN Tail(text) ELSE text
    IN digits # <<>> /\ \A i \in DOMAIN digits : IsDigit(digits[i])

ParseFloat(text) ==
    IF Head(text) = "-" THEN 0 - Decimal(Tail(text), 0) ELSE Decimal(text, 0)

\* slice(index, index + 1): how __getitem__ turns an integer into a row slice.
IntSlice(i) == Slice(Bound(i), Bound(i + 1))

\* A position of a fancy index, or of an integer index: negative counts from the end.
Wrap(p, n) == IF p < 0 THEN p + n ELSE p
InRange(p, n) == Wrap(p, n) >= 0 /\ Wrap(p, n) < n

\* array[slice]: basic slicing returns a view on the same buffer.
TakeSlice(h, a, sel) ==
    LET pos == SlicePositions(sel.start, sel.stop, Length(a))
    IN [err |-> "ok", heap |-> h,
        arr |-> Array(a.buf, [j \in DOMAIN pos |-> a.ix[pos[j]]])]

\* array[[p, q, ...]]: fancy indexing returns a copy in a buffer of its own.
TakeList(h, a, sel) ==
    LET n == Length(a) IN
    IF \E j \in DOMAIN sel.pos : ~InRange(sel.pos[j], n)
    THEN [err |-> "IndexError", heap |-> h, arr |-> a]
    ELSE IF FreeIds(h) = {} THEN [err |-> "nomem", heap |-> h, arr |-> a]
    ELSE LET r == Alloc(h, [j \in DOMAIN sel.pos |->
                               h[a.buf].data[a.ix[Wrap(sel.pos[j], n) + 1]]])
         IN [err |-> "ok", heap |-> r.heap, arr |-> r.arr]

\* self._columns[column][column_slice] for a slice or a list of positions.
Take(h, a, sel) ==
    IF sel.k = "slice" THEN TakeSlice(h, a, sel) ELSE TakeList(h, a, sel)

\* ------------------------------------------------------------ the Table

\* Table(): no columns, no metadata.
EmptyTable == [cols |-> <<>>, meta |-> {}]

\* keys()
Keys(tab) == [i \in DOMAIN tab.cols |-> tab.cols[i].name]

HasColumn(tab, name) == \E i \in DOMAIN tab.cols : tab.cols[i].name = name

ColumnIndex(tab, name) == CHOOSE i \in DOMAIN tab.cols : tab.cols[i].name = name

\* self._columns[name]
Column(tab, name) == tab.cols[ColumnIndex(tab, name)].arr

\* __len__ and shape[0]: the length of the first column, 0 without columns.
RowCount(tab) == IF Len(tab.cols) > 0 THEN Length(tab.cols[1].arr) ELSE 0

\* shape
Shape(tab) == <<RowCount(tab), Len(tab.cols)>>

\* The values of every column, in column order.
TableValues(h, tab) == [i \in DOMAIN tab.cols |-> Values(h, tab.cols[i].arr)]

\* Values offered to an assignment: a Python list, a scalar, or a numpy array.
ListValue(vals) == [kind |-> "list", vals |-> vals]
ScalarValue(v) == [kind |-> "scalar", val |-> v]
ArrayValue(a) == [kind |-> "array", arr |-> a]

\* numpy.ma.array(value): copy=False, so an array argument is not copied; the
\* result shares its buffer.  A list gets a buffer of its own.
MaArray(h, value) ==
    IF value.kind = "scalar" THEN [err |-> "ok", heap |-> h, ndim |-> 0, arr |-> Array(1, <<>>)]
    ELSE IF value.kind = "array" THEN [err |-> "ok", heap |-> h, ndim |-> 1, arr |-> value.arr]
    ELSE IF FreeIds(h) = {} THEN [err |-> "nomem", heap |-> h, ndim |-> 1, arr |-> Array(1, <<>>)]
    ELSE LET r == Alloc(h, value.vals)
         IN [err |-> "ok", heap |-> r.heap, ndim |-> 1, arr |-> r.arr]

\* Faulty variant of ShapeMismatch: no column is compared.
ShapeMismatchNever(tab, name, a) == FALSE

\* Faulty variant of ShapeMismatch: the column being replaced is not compared.
ShapeMismatchOthers(tab, name, a) ==
    \E i \in DOMAIN tab.cols : tab.cols[i].name # name /\ Length(tab.cols[i].arr) # Length(a)

\* for column in self._columns.values(): column.shape != value.shape
ShapeMismatch(tab, name, a) ==
    \E i \in DOMAIN tab.cols : Length(tab.cols[i].arr) # Length(a)

\* self._columns[column] = value on the OrderedDict: an existing key keeps its
\* place, a new key goes last.
Store(tab, name, a) ==
    IF HasColumn(tab, name)
    THEN [tab EXCEPT !.cols[ColumnIndex(tab, name)].arr = a]
    ELSE [tab EXCEPT !.cols = Append(@, [name |-> name, arr |-> a])]

\* __setitem__ with a string index.  On an error nothing is stored.
SetColumn(h, tab, name, value) ==
    LET m == MaArray(h, value) IN
    IF m.err # "ok" THEN [err |-> m.err, heap |-> h, tab |-> tab]
    ELSE IF m.ndim # 1 THEN [err |-> "ndim", heap |-> h, tab |-> tab]
    ELSE IF ShapeMismatch(tab, name, m.arr) THEN [err |-> "length", heap |-> h, tab |-> tab]
    ELSE [err |-> "ok", heap |-> m.heap, tab |-> Store(tab, name, m.arr)]

\* The positions an element assignment writes: one for an integer, the slice's
\* for a slice.
AssignPositions(sel, n) ==
    IF sel.k = "int" THEN <<Wrap(sel.i, n) + 1>>
    ELSE SlicePositions(sel.start, sel.stop, n)

\* __setitem__ with a (name, int-or-slice) index: writes v through the column's
\* view into its buffer.
SetElements(h, tab, name, sel, v) ==
    IF sel.k \notin {"int", "slice"} THEN [err |-> "key", heap |-> h]
    ELSE IF ~HasColumn(tab, name) THEN [err |-> "KeyError", heap |-> h]
    ELSE LET a == Column(tab, name)
             n == Length(a)
         IN IF sel.k = "int" /\ ~InRange(sel.i, n) THEN [err |-> "IndexError", heap |-> h]
            ELSE LET pos == AssignPositions(sel, n)
                     cells == {a.ix[pos[j]] : j \in DOMAIN pos}
                 IN [err |-> "ok",
                     heap |-> [h EXCEPT ![a.buf].data =
                                 [c \in DOMAIN @ |-> IF c \in cells THEN v ELSE @[c]]]]

\* __delitem__: self._columns.__delitem__(key); _metadata is not touched.
DeleteColumn(tab, name) ==
    LET i == ColumnIndex(tab, name) IN
    [tab EXCEPT !.cols = SubSeq(@, 1, i - 1) \o SubSeq(@, i + 1, Len(@))]

\* self._metadata[column] on the defaultdict(dict): the dict stored for the
\* column, as its set of (key, value) items; an empty one when nothing is stored.
\* _metadata is modelled as the set of its [col, key, val] entries.
MetadataOf(tab, name) == {<<e.key, e.val>> : e \in {x \in tab.meta : x.col = name}}

\* metadata(column)[key] = val
MetadataWrite(tab, name, key, val) ==
    [tab EXCEPT !.meta = {e \in @ : ~(e.col = name /\ e.key = key)}
                         \cup {[col |-> name, key |-> key, val |-> val]}]

\* ---------------------------------------------------------- construction

\* for key, value in zip(keys, values): self[key] = value.  An error leaves the
\* constructor by an exception, and no Table comes to exist.
RECURSIVE StoreAll(_, _, _, _, _)
StoreAll(h, tab, keys, values, i) ==
    IF i > Len(keys) THEN [err |-> "ok", heap |-> h, tab |-> tab]
    ELSE LET r == SetColumn(h, tab, keys[i], values[i]) IN
         IF r.err # "ok" THEN [err |-> r.err, heap |-> h, tab |-> NoTable]
         ELSE StoreAll(r.heap, r.tab, keys, values, i + 1)

\* Table(data) for a sequence of (name, value) pairs.
TableFrom(h, data) ==
    StoreAll(h, EmptyTable,
             Dedup([i \in DOMAIN data |-> data[i].name]),
             [i \in DOMAIN data |-> data[i].value], 1)

Pair(name, value) == [name |-> name, value |-> value]

\* ------------------------------------------------------------- __getitem__

\* The index expressions of __getitem__.
NameIndex(name) == [k |-> "name", name |-> name]                        \* table["a"]
NameSelIndex(name, sel) == [k |-> "name_sel", name |-> name, sel |-> sel] \* table["a", sel]
RowsIndex(sel) == [k |-> "rows", sel |-> sel]                           \* table[sel]
RowsNameIndex(sel, name) == [k |-> "rows_name", sel |-> sel, name |-> name] \* table[sel, "a"]
RowsNamesIndex(sel, names) == [k |-> "rows_names", sel |-> sel, names |-> names] \* table[sel, ["a", "b"]]
NamesIndex(names) == [k |-> "names", names |-> names]                   \* table[["a", "b"]]

\* The row slice of an index: slice(i, i + 1) for an integer, else the selector.
RowSlice(sel) == IF sel.k = "int" THEN IntSlice(sel.i) ELSE sel

\* self._columns[column][column_slice]
ColumnRead(h, tab, name, sel) ==
    IF ~HasColumn(tab, name) THEN [err |-> "KeyError", heap |-> h, arr |-> Array(1, <<>>)]
    ELSE Take(h, Column(tab, name), RowSlice(sel))

\* [(column, self._columns[column][row_slice]) for column in columns]
RECURSIVE ReadColumns(_, _, _, _, _, _)
ReadColumns(h, tab, names, sel, i, acc) ==
    IF i > Len(names) THEN [err |-> "ok", heap |-> h, data |-> acc]
    ELSE LET r == ColumnRead(h, tab, names[i], sel) IN
         IF r.err # "ok" THEN [err |-> r.err, heap |-> h, data |-> <<>>]
         ELSE ReadColumns(r.heap, tab, names, sel, i + 1,
                          Append(acc, Pair(names[i], ArrayValue(r.arr))))

\* Table([(column, self._columns[column][row_slice]) for column in columns])
SubTable(h, tab, names, sel) ==
    LET r == ReadColumns(h, tab, names, sel, 1, <<>>) IN
    IF r.err # "ok" THEN [err |-> r.err, heap |-> h, tab |-> NoTable]
    ELSE TableFrom(r.heap, r.data)

\* Faulty variant of IndexColumns: a list of names is taken in the Table's column order.
IndexColumnsTableOrder(tab, index) ==
    LET Named(name) == name \in Range(index.names) IN
    CASE index.k = "rows" -> Keys(tab)
      [] index.k = "rows_name" -> <<index.name>>
      [] index.k = "rows_names" -> SelectSeq(Keys(tab), Named)
      [] index.k = "names" -> SelectSeq(Keys(tab), Named)

\* The columns an index selects.
IndexColumns(tab, index) ==
    CASE index.k = "rows" -> Keys(tab)
      [] index.k = "rows_name" -> <<index.name>>
      [] index.k = "rows_names" -> index.names
      [] index.k = "names" -> index.names

\* The rows an index selects.
IndexRows(index) ==
    IF index.k = "names" THEN Slice(None, None) ELSE index.sel

\* __getitem__: a column (an array) for the indexes that start with a name, a
\* new Table for the others.
GetItem(h, tab, index) ==
    IF index.k = "name"
    THEN LET r == ColumnRead(h, tab, index.name, Slice(None, None))
         IN [err |-> r.err, heap |-> r.heap, kind |-> "column", arr |-> r.arr, tab |-> NoTable]
    ELSE IF index.k = "name_sel"
    THEN LET r == ColumnRead(h, tab, index.name, index.sel)
         IN [err |-> r.err, heap |-> r.heap, kind |-> "column", arr |-> r.arr, tab |-> NoTable]
    ELSE LET r == SubTable(h, tab, IndexColumns(tab, index), IndexRows(index))
         IN [err |-> r.err, heap |-> r.heap, kind |-> "table", arr |-> Array(1, <<>>),
             tab |-> r.tab]

\* Table(other): keys = other.keys(), values = [other[key] for key in keys].
TableCopy(h, tab) ==
    LET names == Keys(tab)
        r == ReadColumns(h, tab, names, Slice(None, None), 1, <<>>)
    IN IF r.err # "ok" THEN [err |-> r.err, heap |-> h, tab |-> NoTable]
       ELSE TableFrom(r.heap, r.data)

\* ---------------------------------------------------------------- read_csv

\* zip(*rows): as many columns as the shortest row has fields, none without rows.
RECURSIVE ShortestRow(_)
ShortestRow(rows) ==
    IF Len(rows) = 1 THEN Len(rows[1]) ELSE Min(Len(rows[1]), ShortestRow(Tail(rows)))

Zip(rows) ==
    IF rows = <<>> THEN <<>>
    ELSE [c \in 1..ShortestRow(rows) |-> [r \in DOMAIN rows |-> rows[r][c]]]

\* [(column[0], column[1:]) for column in columns]
CsvPairs(rows) ==
    LET columns == Zip(rows)
    IN [c \in DOMAIN columns |->
           Pair(columns[c][1],
                ListValue([r \in 1..(Len(columns[c]) - 1) |-> TextVal(columns[c][r + 1])]))]

\* array.astype("float64"): a new array of the parsed values, or a ValueError
\* when a value does not parse.
AsTypeFloat(h, a) ==
    LET texts == Values(h, a) IN
    IF \E j \in DOMAIN texts : ~Parses(texts[j].str)
    THEN [err |-> "ValueError", heap |-> h, arr |-> a]
    ELSE IF FreeIds(h) = {} THEN [err |-> "nomem", heap |-> h, arr |-> a]
    ELSE LET r == Alloc(h, [j \in DOMAIN texts |-> FloatVal(ParseFloat(texts[j].str))])
         IN [err |-> "ok", heap |-> r.heap, arr |-> r.arr]

\* Faulty variant of ConvertColumn: the conversion error is not caught.
ConvertColumnRaising(h, tab, name) ==
    LET r == AsTypeFloat(h, Column(tab, name)) IN
    IF r.err # "ok" THEN [err |-> r.err, heap |-> h, tab |-> tab]
    ELSE SetColumn(r.heap, tab, name, ArrayValue(r.arr))

\* try: result[name] = result[name].astype("float64")  except: pass
ConvertColumn(h, tab, name) ==
    LET r == AsTypeFloat(h, Column(tab, name)) IN
    IF r.err = "nomem" THEN [err |-> r.err, heap |-> h, tab |-> tab]
    ELSE IF r.err # "ok" THEN [err |-> "ok", heap |-> h, tab |-> tab]
    ELSE SetColumn(r.heap, tab, name, ArrayValue(r.arr))

\* for name in result.keys(): ...
RECURSIVE ConvertColumns(_, _, _, _)
ConvertColumns(h, tab, names, i) ==
    IF i > Len(names) THEN [err |-> "ok", heap |-> h, tab |-> tab]
    ELSE LET r == ConvertColumn(h, tab, names[i]) IN
         IF r.err # "ok" THEN [err |-> r.err, heap |-> h, tab |-> NoTable]
         ELSE ConvertColumns(r.heap, r.tab, names, i + 1)

\* read_csv(fobj, convert) for a file whose csv.reader rows are `rows`.
read_csv(h, rows, convert) ==
    LET result == TableFrom(h, CsvPairs(rows)) IN
    IF result.err # "ok" \/ ~convert THEN result
    ELSE ConvertColumns(result.heap, result.tab, Keys(result.tab), 1)

\* ------------------------------------------------------------- the inputs

A == <<"a">>
B == <<"b">>
Names == {A, B}

\* The caller's own numpy array: a view of all of buffer 1.
Ext(h) == Array(1, [j \in 1..Len(h[1].data) |-> j])

\* The values a caller assigns: lists, a scalar, its numpy array, and
\* (with a Table at hand) one of the Table's columns, table[name].
Zeros(n) == [j \in 1..n |-> 0]
SourceValues(h) ==
    {ListValue(Zeros(n)) : n \in 0..MaxRows} \cup {ScalarValue(0), ArrayValue(Ext(h))}

\* value.ndim and value.shape[0] of numpy.ma.array(value)
Ndim(value) == IF value.kind = "scalar" THEN 0 ELSE 1
Size(value) ==
    IF value.kind = "scalar" THEN 0
    ELSE IF value.kind = "list" THEN Len(value.vals)
    ELSE Length(value.arr)

ColumnValues(tab) ==
    IF tab = NoTable THEN {}
    ELSE {ArrayValue(Column(tab, name)) : name \in Range(Keys(tab))}

IntSels == {IntSel(i) : i \in (0 - MaxRows)..MaxRows}

\* The element assignments offered: the first and the last element, an index
\* past the end, the whole column, and all but the first element.
WriteSels == {IntSel(0), IntSel(-1), IntSel(MaxRows),
              Slice(None, None), Slice(Bound(1), None)}

Op(op, err, arg) == [op |-> op, err |-> err, arg |-> arg]

\* --------------------------------------------------------------- actions

HeapOf(x) == [i \in 1..MaxBufs |-> IF i = 1 THEN Cell(x) ELSE Free]

\* Before construction: the caller holds the numpy array x and no Table.
InitWith(x) ==
    /\ heap = HeapOf(x)
    /\ t = NoTable
    /\ d = NoTable
    /\ csv = NoCsv
    /\ last = Op("init", "ok", <<>>)

Init == \E n \in 0..MaxRows : InitWith(Zeros(n))

\* t = Table(data)
Construct(data) ==
    /\ t = NoTable
    /\ \E r \in {TableFrom(heap, data)} :
       /\ r.err # "nomem"
       /\ \E c \in {Collect(r.heap, r.tab, d)} :
             heap' = c.heap /\ t' = c.tab1 /\ d' = c.tab2
       /\ last' = Op("construct", r.err,
                     [names |-> [i \in DOMAIN data |-> data[i].name]])
    /\ UNCHANGED csv

\* t[name] = value
SetItem(name, value) ==
    /\ t # NoTable
    /\ \E r \in {SetColumn(heap, t, name, value)} :
       /\ r.err # "nomem"
       /\ \E c \in {Collect(r.heap, r.tab, d)} :
             heap' = c.heap /\ t' = c.tab1 /\ d' = c.tab2
       /\ last' = Op("setitem", r.err, [ndim |-> Ndim(value), n |-> Size(value)])
    /\ UNCHANGED csv

\* t[name, sel] = v
SetElem(name, sel, v) ==
    /\ t # NoTable
    /\ \E r \in {SetElements(heap, t, name, sel, v)} :
       /\ heap' = r.heap
       /\ last' = Op("setelem", r.err,
                     [on |-> "t", name |-> name,
                      pos |-> IF r.err = "ok"
                              THEN Range(AssignPositions(sel, Length(Column(t, name))))
                              ELSE {}])
    /\ UNCHANGED <<t, d, csv>>

\* del t[name]; a missing name is a KeyError.
DelItem(name) ==
    /\ t # NoTable
    /\ IF HasColumn(t, name)
       THEN /\ \E c \in {Collect(heap, DeleteColumn(t, name), d)} :
                  heap' = c.heap /\ t' = c.tab1 /\ d' = c.tab2
            /\ last' = Op("delitem", "ok", <<>>)
       ELSE /\ UNCHANGED <<t, d, heap>>
            /\ last' = Op("delitem", "KeyError", <<>>)
    /\ UNCHANGED csv

\* t.metadata(name)[key] = val; metadata() raises for an unknown column.
Metadata(name, key, val) ==
    /\ t # NoTable
    /\ IF HasColumn(t, name)
       THEN /\ t' = MetadataWrite(t, name, key, val)
            /\ last' = Op("metadata", "ok", <<>>)
       ELSE /\ UNCHANGED t
            /\ last' = Op("metadata", "ValueError", <<>>)
    /\ UNCHANGED <<heap, d, csv>>

\* d[name, sel] = v, on the derived Table.
SetElemDerived(name, sel, v) ==
    /\ d # NoTable
    /\ \E r \in {SetElements(heap, d, name, sel, v)} :
       /\ heap' = r.heap
       /\ last' = Op("setelem", r.err, [on |-> "d", name |-> name])
    /\ UNCHANGED <<t, d, csv>>

\* t[index]: a column read hands back an array, whose values the caller sees;
\* a Table read makes the derived Table d.  A failed read leaves d as it was.
Read(index) ==
    /\ t # NoTable
    /\ \E r \in {GetItem(Collect(heap, t, NoTable).heap, t, index)} :
       /\ r.err # "nomem"
       /\ IF r.err = "ok" /\ r.kind = "table"
          THEN \E c \in {Collect(r.heap, t, r.tab)} :
                  heap' = c.heap /\ t' = c.tab1 /\ d' = c.tab2
          ELSE UNCHANGED <<heap, t, d>>
       /\ last' = Op("getitem", r.err,
                     [index |-> index,
                      kind |-> r.kind,
                      values |-> IF r.err = "ok" /\ r.kind = "column"
                                 THEN Values(r.heap, r.arr) ELSE <<>>])
    /\ UNCHANGED csv

\* d = Table(t)
Copy ==
    /\ t # NoTable
    /\ \E r \in {TableCopy(Collect(heap, t, NoTable).heap, t)} :
       /\ r.err = "ok"
       /\ \E c \in {Collect(r.heap, t, r.tab)} :
             heap' = c.heap /\ t' = c.tab1 /\ d' = c.tab2
       /\ last' = Op("copy", r.err, <<>>)
    /\ UNCHANGED csv

\* The sources offered to Table(data) in Spec: sequences of (name, value)
\* pairs with distinct names (SpecNames offers the duplicated ones).
Sources(h) ==
    {data \in SeqsUpTo({Pair(n, v) : n \in Names, v \in SourceValues(h)}, Cardinality(Names)) :
        Distinct([i \in DOMAIN data |-> data[i].name])}

Next ==
    \/ t = NoTable /\ \E data \in Sources(heap) : Construct(data)
    \/ t # NoTable /\ \E name \in Names, value \in SourceValues(heap) \cup ColumnValues(t) :
          SetItem(name, value)
    \/ t # NoTable /\ \E name \in Names, sel \in WriteSels : SetElem(name, sel, 1)
    \/ t # NoTable /\ \E name \in Names : DelItem(name)
    \/ t # NoTable /\ Metadata(A, "k", 1)

Spec == Init /\ [][Next]_vars

\* Indexing reads: the Table is constructed, read by every kind of index, and
\* the Table and the Table derived from it are written to.
RowSels ==
    IntSels \cup {Slice(None, None), Slice(Bound(0), Bound(1)), Slice(Bound(1), None)}
            \cup {ListSel(<<0>>), ListSel(<<-1>>), ListSel(<<1, 0>>), ListSel(<<0, 0>>)}

NameLists == {<<A>>, <<A, B>>, <<B, A>>, <<A, A>>}

Indexes ==
    {NameIndex(A)}
        \cup {NameSelIndex(A, sel) : sel \in RowSels}
        \cup {RowsIndex(sel) : sel \in RowSels}
        \cup {RowsNameIndex(sel, B) : sel \in {Slice(None, None), IntSel(0)}}
        \cup {RowsNamesIndex(sel, names) :
                 sel \in {Slice(None, None), IntSel(-1), ListSel(<<1, 0>>)},
                 names \in NameLists}
        \cup {NamesIndex(names) : names \in NameLists}

\* The lists a Table is built from for reading: row r of the c-th column is
\* the number 10 * c + r, so that every cell is told from every other.
Cells(c, n) == [r \in 1..n |-> 10 * c + r]

ReadSources ==
    {[c \in DOMAIN names |-> Pair(names[c], ListValue(Cells(c, n)))] :
        names \in {<<>>, <<A>>, <<A, B>>, <<B, A>>}, n \in 0..MaxRows}

NextRead ==
    \/ t = NoTable /\ \E data \in ReadSources : Construct(data)
    \/ t # NoTable /\ \E index \in Indexes : Read(index)
    \/ t # NoTable /\ Copy
    \/ t # NoTable /\ SetElem(A, IntSel(0), 0)
    \/ d # NoTable /\ SetElemDerived(A, IntSel(0), 0)

SpecRead == InitWith(<<>>) /\ [][NextRead]_vars

\* Duplicate names: Tables built from every list of up to MaxNames names.  The
\* values do not matter here: every column is the caller's (empty) array.
A1 == Format(A, 1)
NameUniverse == {A, B, A1, Format(A, 2), Format(A1, 1)}

NextNames ==
    \/ t = NoTable /\ \E names \in SeqsUpTo(NameUniverse, MaxNames) :
          Construct([i \in DOMAIN names |-> Pair(names[i], ArrayValue(Ext(heap)))])
    \/ t # NoTable /\ \E name \in {A, A1} : SetItem(name, ArrayValue(Ext(heap)))
    \/ t # NoTable /\ \E name \in {A, A1} : DelItem(name)

SpecNames == InitWith(<<>>) /\ [][NextNames]_vars

\* Delimited text: a header row and up to MaxCsvRows rows of fields, a row
\* at times one field short.
Texts == {<<"1">>, <<"-", "2">>, <<"x">>, <<"1", "x">>, <<>>}
Headers == {<<A>>, <<A, B>>, <<A, A>>}

CsvRows(header) ==
    LET Row == [1..Len(header) -> Texts] \cup [1..(Len(header) - 1) -> Texts]
    IN {<<header>> \o body : body \in SeqsUpTo(Row, MaxCsvRows)}

CsvFiles == {<<>>} \cup UNION {CsvRows(header) : header \in Headers}

\* t = read_csv(fobj, convert)
ReadCsv(rows, convert) ==
    /\ csv = NoCsv
    /\ \E r \in {read_csv(HeapOf(<<>>), rows, convert)} :
       /\ r.err # "nomem"
       /\ \E c \in {Collect(r.heap, r.tab, NoTable)} :
             heap' = c.heap /\ t' = c.tab1
       /\ last' = Op("read_csv", r.err, <<>>)
    /\ csv' = [rows |-> rows, convert |-> convert]
    /\ UNCHANGED d

NextCsv == \E rows \in CsvFiles, convert \in BOOLEAN : ReadCsv(rows, convert)

SpecCsv == InitWith(<<>>) /\ [][NextCsv]_vars

\* ================================================================ properties

\* C1: after construction and any sequence of name-keyed assignments (accepted
\* or rejected), element assignments and deletions, all columns of the Table
\* have the same length, which is the row count len()/shape report, and the
\* row count is 0 when there are no columns.
C1_ColumnsShareLength ==
    t # NoTable =>
        /\ \A i \in DOMAIN t.cols : Length(t.cols[i].arr) = RowCount(t)
        /\ \A i \in DOMAIN t.cols : Length(t.cols[i].arr) = Shape(t)[1]
        /\ (Len(t.cols) = 0 => RowCount(t) = 0)

\* C1 witness: a Table of two columns and two rows that has just rejected an
\* assignment of another length.
C1_Witness ==
    /\ t # NoTable /\ Len(t.cols) = 2 /\ RowCount(t) = 2
    /\ last.op = "setitem" /\ last.err = "length" /\ last.arg.n = 1

\* C3: with at least one column in the Table, assigning under any name a 1-D
\* value whose length differs from the row count fails with the length-mismatch
\* error and leaves the Table unchanged: names, order, values and row count.
C3_MismatchRejected ==
    [][(/\ last'.op = "setitem"
        /\ Len(t.cols) >= 1
        /\ last'.arg.ndim = 1
        /\ last'.arg.n # RowCount(t))
       => (/\ last'.err = "length"
           /\ t' = t
           /\ Keys(t') = Keys(t)
           /\ RowCount(t') = RowCount(t)
           /\ TableValues(heap', t') = TableValues(heap, t))]_vars

\* C3 witness: the only column of a Table was assigned a value of another
\* length, and the assignment was rejected.
C3_Witness ==
    /\ t # NoTable /\ Len(t.cols) = 1 /\ RowCount(t) = 2
    /\ last.op = "setitem" /\ last.err = "length" /\ last.arg.n = 1

\* C10: an element assignment table[name, sel] = v changes only the addressed
\* positions of column name: the row count, the names, their order, every value
\* of every other column, and the values of the source the Table was built
\* from, stay as they were.
C10_ElementAssignmentIsLocal ==
    [][(last'.op = "setelem" /\ last'.err = "ok")
       => (/\ Keys(t') = Keys(t)
           /\ RowCount(t') = RowCount(t)
           /\ \A i \in DOMAIN t.cols :
                \A j \in 1..Length(t.cols[i].arr) :
                    (t.cols[i].name # last'.arg.name \/ j \notin last'.arg.pos)
                    => Values(heap', t'.cols[i].arr)[j] = Values(heap, t.cols[i].arr)[j]
           /\ heap'[1] = heap[1])]_vars

\* C8: a column added under a name that is not in the Table has an empty
\* metadata mapping, also when the name was used before, given metadata, and
\* deleted.
C8_NewColumnHasNoMetadata ==
    [][(last'.op = "setitem" /\ last'.err = "ok")
       => \A name \in Range(Keys(t')) \ Range(Keys(t)) : MetadataOf(t', name) = {}]_vars

\* C4 (as claimed): a Table obtained from another by an indexing read or by
\* Table(other) holds its own storage: an element assignment on the parent
\* leaves every value of the derived Table unchanged, and an element
\* assignment on the derived Table leaves every value of the parent unchanged.
C4_DerivedTableIsIndependent ==
    [][(last'.op = "setelem" /\ last'.err = "ok" /\ d # NoTable)
       => (/\ last'.arg.on = "t" => TableValues(heap', d') = TableValues(heap, d)
           /\ last'.arg.on = "d" => TableValues(heap', t') = TableValues(heap, t))]_vars

\* The last operation was a successful read by an index of this kind.
IsRead(kind) == last.op = "getitem" /\ last.err = "ok" /\ last.arg.index.k = kind

\* C6 (as claimed): a rows-only index gives a sub-Table with the parent's keys
\* in the parent's order; a (rows, list of names) index gives a sub-Table whose
\* keys are the given list, in the given order.
C6_KeysAsClaimed ==
    /\ IsRead("rows") => Keys(d) = Keys(t)
    /\ IsRead("rows_names") => Keys(d) = last.arg.index.names

\* C6 (amended): as claimed, when the list of names repeats no name.  (A
\* repeated name goes through the duplicate-name resolution of Table.__init__
\* and comes back renamed.)
C6_KeysOfSubTable ==
    /\ IsRead("rows") => Keys(d) = Keys(t)
    /\ (IsRead("rows_names") /\ Distinct(last.arg.index.names))
          => Keys(d) = last.arg.index.names

\* C6 witness: t has the columns a, b and t[sel, ["b", "a"]] has b, a.
C6_Witness ==
    /\ IsRead("rows_names")
    /\ Keys(t) = <<A, B>>
    /\ last.arg.index.names = <<B, A>>
    /\ Keys(d) = <<B, A>>
    /\ RowCount(d) = 2

\* C7 (as claimed): for a Table of n >= 1 rows and an integer i with
\* -n <= i < n, table[i] is a Table of all the columns and exactly one row, the
\* values of row i, and table[name, i] is the one-element array of the value
\* of column name at i.
C7_IntegerAddressesOneRow ==
    (/\ last.op = "getitem"
     /\ last.arg.index.k \in {"rows", "name_sel"}
     /\ last.arg.index.sel.k = "int"
     /\ Len(t.cols) >= 1
     /\ RowCount(t) >= 1
     /\ last.arg.index.sel.i >= 0 - RowCount(t)
     /\ last.arg.index.sel.i < RowCount(t)
     /\ (last.arg.index.k = "name_sel" => HasColumn(t, last.arg.index.name)))
    => LET row == Wrap(last.arg.index.sel.i, RowCount(t)) + 1 IN
       /\ last.err = "ok"
       /\ last.arg.index.k = "rows" =>
             /\ Keys(d) = Keys(t)
             /\ RowCount(d) = 1
             /\ \A c \in DOMAIN t.cols :
                   Values(heap, d.cols[c].arr) = <<Values(heap, t.cols[c].arr)[row]>>
       /\ last.arg.index.k = "name_sel" =>
             last.arg.values = <<Values(heap, Column(t, last.arg.index.name))[row]>>

\* The source names of the last construction, when it succeeded.
Constructed == t # NoTable /\ last.op = "construct" /\ last.err = "ok"

\* C2: the names the duplicate-name resolution produces for a list of N source
\* names are pairwise distinct, so the constructed Table has exactly N columns;
\* and the names stay distinct under later assignments and deletions.
C2_NamesUnique ==
    t # NoTable =>
        /\ Distinct(Keys(t))
        /\ Constructed => Len(t.cols) = Len(last.arg.names)

\* C2 witness: a Table built from the names a, a, a-1 has three columns.
C2_Witness ==
    /\ Constructed
    /\ last.arg.names = <<A, A, A1>>
    /\ Keys(t) = <<A, Format(A, 2), A1>>

\* The i-th source name is the leftmost occurrence of a name that occurs again.
FirstOfDuplicated(names, i) ==
    /\ key_count(names, names[i]) > 1
    /\ \A j \in 1..(i - 1) : names[j] # names[i]

\* C5 (as claimed): the leftmost occurrence of each duplicated source name
\* keeps its bare name in the constructed Table.
C5_FirstOccurrenceKeepsName ==
    Constructed =>
        \A i \in DOMAIN last.arg.names :
            FirstOfDuplicated(last.arg.names, i) => Keys(t)[i] = last.arg.names[i]

\* The Table read_csv gives for the same file without conversion.
Plain == read_csv(HeapOf(<<>>), csv.rows, FALSE)

\* C9: read_csv with conversion treats each column by itself: a column holds
\* the numbers its texts parse to if and only if every one of them parses, and
\* keeps its texts otherwise; no error reaches the caller; names, order and row
\* count are those of loading without conversion.
C9_ConversionIsColumnLocal ==
    (csv # NoCsv /\ csv.convert) =>
        /\ last.err = "ok"
        /\ Keys(t) = Keys(Plain.tab)
        /\ RowCount(t) = RowCount(Plain.tab)
        /\ \A c \in DOMAIN Plain.tab.cols :
              LET texts == Values(Plain.heap, Plain.tab.cols[c].arr)
                  now == Values(heap, t.cols[c].arr)
              IN IF \A j \in DOMAIN texts : Parses(texts[j].str)
                 THEN now = [j \in DOMAIN texts |-> FloatVal(ParseFloat(texts[j].str))]
                 ELSE now = texts

\* C9 witness: of two columns of two rows, the first became numbers and the
\* second, with one value that does not parse, kept its texts.
C9_Witness ==
    /\ csv # NoCsv /\ csv.convert /\ last.err = "ok"
    /\ Keys(t) = <<A, B>>
    /\ Values(heap, t.cols[1].arr) = <<FloatVal(1), FloatVal(-2)>>
    /\ Values(heap, t.cols[2].arr) = <<TextVal(<<"1">>), TextVal(<<"x">>)>>

\* C11 (as claimed): every occurrence the construction renames ends up named
\* base-n, where base is the name the occurrence had in the source and n is
\* the smallest positive integer for which base-n was not reserved when the
\* occurrence was processed; a name occurring exactly once in the source is
\* never altered.
C11_RenamedToMinimalSuffix ==
    Constructed =>
        LET source == last.arg.names IN
        /\ \A e \in Renamings(source) :
               Keys(t)[e.pos] =
                   Format(source[e.pos], NextSuffix(source[e.pos], 1, e.reserved))
        /\ \A i \in DOMAIN source :
               key_count(source, source[i]) = 1 => Keys(t)[i] = source[i]

====
